---- MODULE Spec2Model ----
(***************************************************************************)
(* Model of the computational core of the Vishleshan dashboard (app.py):   *)
(* the record filter of main, calculate_kpis, detect_events and the        *)
(* correlation analysis of show_advanced_insights.                         *)
(*                                                                         *)
(* A data frame is a sequence of records (rows, in file order).  A number  *)
(* that pandas computes as a float is an exact rational here, or NaN;      *)
(* floating-point rounding is not modelled.                                *)
(***************************************************************************)
EXTENDS Integers, Sequences, FiniteSets, TLC

VARIABLES source, loaded, load_error, grievances, energy, traffic, waste,
          date_range, zone_filter,
          grievances_filtered, energy_filtered, traffic_filtered, waste_filtered,
          kpis, events, event_page, merged, corr_matrix, findings,
          anomaly_data, anomalies, warning, page, pc

vars == <<source, loaded, load_error, grievances, energy, traffic, waste, date_range, zone_filter,
          grievances_filtered, energy_filtered, traffic_filtered, waste_filtered,
          kpis, events, event_page, merged, corr_matrix, findings,
          anomaly_data, anomalies, warning, page, pc>>

(***************************************************************************)
(* Bounds of the model.                                                    *)
(***************************************************************************)
MaxRows == 3
MaxTraffic == 8
MaxEnergy == 5
MaxWaste == 5
MaxGrievances == 9
MaxSeed == 4

MaxFaultRows == 2

(***************************************************************************)
(* Numbers: exact rationals in lowest terms, or NaN.                       *)
(***************************************************************************)
Abs(x) == IF x < 0 THEN -x ELSE x

Min(a, b) == IF a <= b THEN a ELSE b

RECURSIVE GCD(_, _)
GCD(a, b) == IF b = 0 THEN a ELSE GCD(b, a % b)

NaN == [nan |-> TRUE, num |-> 0, den |-> 1]

Rat(n, d) ==
    LET g == GCD(Abs(n), d)
    IN  [nan |-> FALSE, num |-> n \div g, den |-> d \div g]

FromInt(n) == Rat(n, 1)

RAdd(x, y) ==
    IF x.nan \/ y.nan THEN NaN
    ELSE Rat(x.num * y.den + y.num * x.den, x.den * y.den)

RSub(x, y) ==
    IF x.nan \/ y.nan THEN NaN
    ELSE Rat(x.num * y.den - y.num * x.den, x.den * y.den)

RDivInt(x, k) == IF x.nan THEN NaN ELSE Rat(x.num, x.den * k)

\* x <= y on numbers; any comparison with NaN is false
RLeq(x, y) == ~x.nan /\ ~y.nan /\ x.num * y.den <= y.num * x.den

(***************************************************************************)
(* pandas primitives used by the code.                                     *)
(***************************************************************************)
Col(df, name) == [i \in 1..Len(df) |-> df[i][name]]

RECURSIVE Sum(_)
Sum(xs) == IF Len(xs) = 0 THEN 0 ELSE xs[1] + Sum(Tail(xs))

RECURSIVE MaxOf(_)
MaxOf(xs) ==
    IF Len(xs) = 1 THEN xs[1]
    ELSE LET m == MaxOf(Tail(xs)) IN IF xs[1] >= m THEN xs[1] ELSE m

\* Series.mean(): NaN on an empty series
Mean(xs) == IF Len(xs) = 0 THEN NaN ELSE Rat(Sum(xs), Len(xs))

\* Series.max(): NaN on an empty series
SeriesMax(xs) == IF Len(xs) = 0 THEN NaN ELSE FromInt(MaxOf(xs))

\* Series.unique(), as a set
Unique(xs) == {xs[i] : i \in 1..Len(xs)}

\* the last n rows instead of the first n
LastRows(df, n) == SubSeq(df, Len(df) - Min(n, Len(df)) + 1, Len(df))

\* DataFrame.head(n)
HeadRows(df, n) == SubSeq(df, 1, Min(n, Len(df)))

\* df[df['Zone_Name'] == zone]
ZoneRows(df, zone) == SelectSeq(df, LAMBDA r : r.Zone_Name = zone)

(***************************************************************************)
(* The four data files.  Row i of each file is fixed; load_data returns    *)
(* the rows present in each file, a prefix (Init chooses the four          *)
(* lengths).                                                               *)
(* Dates are day numbers, Avg_Bin_Fill_Level_Percent is in tenths of a     *)
(* percent, every other quantity is an integer in its own unit.            *)
(***************************************************************************)
Pick(pattern, i) == pattern[((i - 1) % Len(pattern)) + 1]

TrafficRow(i) ==
    [Date             |-> Pick(<<1, 2, 2, 1, 2, 2, 1, 2, 2>>, i),
     Hour             |-> Pick(<<8, 8, 9, 17, 18, 18, 23, 0, 8>>, i),
     Zone_Name        |-> Pick(<<"A", "B", "A", "A", "B", "A", "B", "A", "B">>, i),
     Congestion_Index |-> Pick(<<90, 85, 40, 88, 86, 99, 91, 95, 87>>, i)]

EnergyRow(i) ==
    [Date                   |-> Pick(<<1, 2, 1, 2, 2, 1>>, i),
     Hour                   |-> Pick(<<8, 9, 18, 20, 23, 0>>, i),
     Zone_Name              |-> Pick(<<"A", "A", "B", "A", "B", "B">>, i),
     Energy_Consumption_kWh |-> Pick(<<100, 200, 150, 125, 180, 90>>, i),
     Grid_Voltage           |-> Pick(<<230, 210, 220, 215, 240, 219>>, i),
     Power_Cut_Flag         |-> Pick(<<1, 0, 1, 1, 1, 0>>, i)]

WasteRow(i) ==
    [Date                           |-> Pick(<<1, 2, 2, 2, 1, 1>>, i),
     Zone_Name                      |-> Pick(<<"B", "B", "A", "B", "A", "A">>, i),
     Avg_Bin_Fill_Level_Percent     |-> Pick(<<900, 850, 854, 860, 995, 800>>, i),
     Segregation_Efficiency_Percent |-> Pick(<<60, 70, 55, 80, 65, 75>>, i),
     Missed_Pickups                 |-> Pick(<<0, 2, 1, 0, 3, 1>>, i)]

GrievanceRow(i) ==
    [Date       |-> Pick(<<1, 1, 2, 2, 1, 2, 1, 2, 1, 2>>, i),
     Zone_Name  |-> Pick(<<"A", "B", "A", "B", "A", "A", "B", "B", "A", "B">>, i),
     Ticket_ID  |-> i,
     Issue_Type |-> Pick(<<"Pothole", "Water", "Garbage">>, i),
     Status     |-> Pick(<<"Open", "Resolved", "Open", "InProgress", "Open",
                           "Open", "Open", "Open", "Open", "Resolved">>, i),
     SLA_Days   |-> Pick(<<1, 0, 2, 1, 0, -2, 1, -1, 0, 5>>, i)]

Frame(Row(_), n) == [i \in 1..n |-> Row(i)]

(***************************************************************************)
(* Policy constants, literals in calculate_kpis and detect_events.         *)
(***************************************************************************)
PowerCutWeight == 20
MissedPickupWeight == 10
OpenGrievanceWeight == 5
LowVoltage == 220
CongestionThreshold == 85
BinFillThreshold == 85
SlaThreshold == 1
TrafficCap == 5
EnergyCap == 3
WasteCap == 3
SlaCap == 5

FeedCap == 15

(***************************************************************************)
(* Record filter of main.                                                  *)
(***************************************************************************)
\* Mask with the end of the range excluded
MaskEndExclusive(df, dr, zf) ==
    [i \in 1..Len(df) |->
        /\ df[i].Date >= dr[1]
        /\ df[i].Date < dr[2]
        /\ df[i].Zone_Name \in zf]

\* (df['Date'] >= start) & (df['Date'] <= end) & df['Zone_Name'].isin(zones)
Mask(df, dr, zf) ==
    [i \in 1..Len(df) |->
        /\ df[i].Date >= dr[1]
        /\ df[i].Date <= dr[2]
        /\ df[i].Zone_Name \in zf]

\* df[mask]: the rows whose mask entry is true, in frame order
RECURSIVE BoolIndexFrom(_, _, _)
BoolIndexFrom(df, mask, i) ==
    IF i > Len(df) THEN <<>>
    ELSE (IF i <= Len(mask) /\ mask[i] THEN <<df[i]>> ELSE <<>>)
         \o BoolIndexFrom(df, mask, i + 1)

BoolIndex(df, mask) == BoolIndexFrom(df, mask, 1)

\* FilterData with the grievance mask applied to every frame
FilterDataOneMask(g, e, t, w, dr, zf) ==
    LET mask_g == Mask(g, dr, zf)
    IN  [grievances |-> BoolIndex(g, mask_g),
         energy     |-> BoolIndex(e, mask_g),
         traffic    |-> BoolIndex(t, mask_g),
         waste      |-> BoolIndex(w, mask_g)]

FilterData(g, e, t, w, dr, zf) ==
    LET mask_g == Mask(g, dr, zf)
        mask_e == Mask(e, dr, zf)
        mask_t == Mask(t, dr, zf)
        mask_w == Mask(w, dr, zf)
    IN  [grievances |-> BoolIndex(g, mask_g),
         energy     |-> BoolIndex(e, mask_e),
         traffic    |-> BoolIndex(t, mask_t),
         waste      |-> BoolIndex(w, mask_w)]

(***************************************************************************)
(* calculate_kpis.                                                         *)
(***************************************************************************)
Count(df, Test(_)) == Len(SelectSeq(df, Test))

IsOpen(r) == r.Status = "Open"

IsResolved(r) == r.Status = "Resolved"

\* IsCritical with overdue (negative) SLA_Days left out
IsCriticalNonNegative(r) ==
    r.Status = "Open" /\ r.SLA_Days >= 0 /\ r.SLA_Days <= SlaThreshold

IsCritical(r) == r.Status = "Open" /\ r.SLA_Days <= SlaThreshold

\* StressZones taken from every frame instead of the traffic frame
StressZonesAllFrames(g, e, t, w) ==
    Unique(Col(g, "Zone_Name")) \cup Unique(Col(e, "Zone_Name"))
    \cup Unique(Col(t, "Zone_Name")) \cup Unique(Col(w, "Zone_Name"))

\* StressZones taken from the grievance frame instead of the traffic frame
StressZonesFromGrievances(g, e, t, w) == Unique(Col(g, "Zone_Name"))

\* traffic['Zone_Name'].unique(): the zones the stress loop iterates
StressZones(g, e, t, w) == Unique(Col(t, "Zone_Name"))

\* the body of the loop over traffic['Zone_Name'].unique()
ZoneStress(g, e, t, w, zone) ==
    LET traffic_stress   == Mean(Col(ZoneRows(t, zone), "Congestion_Index"))
        energy_stress    == Sum(Col(ZoneRows(e, zone), "Power_Cut_Flag")) * PowerCutWeight
        waste_stress     == Sum(Col(ZoneRows(w, zone), "Missed_Pickups")) * MissedPickupWeight
        grievance_stress == Count(ZoneRows(g, zone), IsOpen) * OpenGrievanceWeight
    IN  RAdd(traffic_stress, FromInt(energy_stress + waste_stress + grievance_stress))

\* int / int in Python: raises ZeroDivisionError when the divisor is 0
ResolutionRate(g) == Rat(Count(g, IsResolved), Len(g))

\* AvgEnergy over the rows without a power cut only
AvgEnergyWithoutCuts(e) ==
    Mean(Col(SelectSeq(e, LAMBDA r : r.Power_Cut_Flag = 0), "Energy_Consumption_kWh"))

\* energy['Energy_Consumption_kWh'].mean()
AvgEnergy(e) == Mean(Col(e, "Energy_Consumption_kWh"))

\* FlowEfficiency without the division by 100
FlowEfficiencyUnscaled(avg_congestion) == RSub(FromInt(1), avg_congestion)

\* 1 - (avg_congestion / 100)
FlowEfficiency(avg_congestion) == RSub(FromInt(1), RDivInt(avg_congestion, 100))

\* calculate_kpis keeping a call counter between calls: every second call
\* on the same grievance frame reports one grievance more
calculate_kpis_remembering(g, e, t, w) ==
    LET avg_congestion == Mean(Col(t, "Congestion_Index"))
        again == kpis.outcome = "returned" /\ kpis.total_grievances = Len(g)
    IN  IF Len(g) = 0
        THEN [outcome |-> "raised", error |-> "ZeroDivisionError"]
        ELSE [outcome          |-> "returned",
              avg_energy       |-> AvgEnergy(e),
              power_cuts       |-> Sum(Col(e, "Power_Cut_Flag")),
              voltage_issues   |-> Count(e, LAMBDA r : r.Grid_Voltage < LowVoltage),
              avg_congestion   |-> avg_congestion,
              peak_congestion  |-> SeriesMax(Col(t, "Congestion_Index")),
              flow_efficiency  |-> FlowEfficiency(avg_congestion),
              avg_bin_fill     |-> Mean(Col(w, "Avg_Bin_Fill_Level_Percent")),
              missed_pickups   |-> Sum(Col(w, "Missed_Pickups")),
              avg_segregation  |-> Mean(Col(w, "Segregation_Efficiency_Percent")),
              total_grievances |-> IF again THEN Len(g) + 1 ELSE Len(g),
              open_grievances  |-> Count(g, IsOpen),
              critical_issues  |-> Count(g, IsCritical),
              resolution_rate  |-> ResolutionRate(g),
              zone_stress      |-> [zone \in StressZones(g, e, t, w) |->
                                       ZoneStress(g, e, t, w, zone)]]

calculate_kpis(g, e, t, w) ==
    LET avg_congestion == Mean(Col(t, "Congestion_Index"))
    IN  IF Len(g) = 0
        THEN [outcome |-> "raised", error |-> "ZeroDivisionError"]
        ELSE [outcome          |-> "returned",
              avg_energy       |-> AvgEnergy(e),
              power_cuts       |-> Sum(Col(e, "Power_Cut_Flag")),
              voltage_issues   |-> Count(e, LAMBDA r : r.Grid_Voltage < LowVoltage),
              avg_congestion   |-> avg_congestion,
              peak_congestion  |-> SeriesMax(Col(t, "Congestion_Index")),
              flow_efficiency  |-> FlowEfficiency(avg_congestion),
              avg_bin_fill     |-> Mean(Col(w, "Avg_Bin_Fill_Level_Percent")),
              missed_pickups   |-> Sum(Col(w, "Missed_Pickups")),
              avg_segregation  |-> Mean(Col(w, "Segregation_Efficiency_Percent")),
              total_grievances |-> Len(g),
              open_grievances  |-> Count(g, IsOpen),
              critical_issues  |-> Count(g, IsCritical),
              resolution_rate  |-> ResolutionRate(g),
              zone_stress      |-> [zone \in StressZones(g, e, t, w) |->
                                       ZoneStress(g, e, t, w, zone)]]

(***************************************************************************)
(* detect_events.                                                          *)
(***************************************************************************)
\* np.random: a generator whose state advances at every draw; the seed is
\* not set by the program
RngNext(s) == (2 * s + 1) % 5

RECURSIVE RngAt(_, _)
RngAt(seed, k) == IF k <= 1 THEN seed ELSE RngNext(RngAt(seed, k - 1))

\* np.random.randint(low, high) at generator state s: a value in low..high-1
Randint(s, low, high) == low + (s % (high - low))

\* f"{x:.0f}" of a value given in tenths: round to an integer, ties to even
FormatNoDecimals(tenths) ==
    LET q == tenths \div 10
        r == tenths % 10
    IN  IF r < 5 THEN q
        ELSE IF r > 5 THEN q + 1
        ELSE IF q % 2 = 0 THEN q ELSE q + 1

\* an f-string: its fixed text and the two interpolated values
Message(template, first, second) ==
    [template |-> template, first |-> first, second |-> second]

\* datetime.now() - timedelta(minutes=offset), in minutes relative to the pass
Event(type, domain, message, action, offset) ==
    [type |-> type, domain |-> domain, message |-> message,
     action |-> action, timestamp |-> 0 - offset]

\* TrafficEvent with a severity that depends on the random draw
TrafficEventRandomSeverity(row, s) ==
    Event(IF Randint(s, 1, 60) % 2 = 0 THEN "CRITICAL" ELSE "WARNING", "Traffic",
          Message("Severe congestion at {} - Index: {}",
                  row.Zone_Name, row.Congestion_Index),
          "Deploy traffic management team", Randint(s, 1, 60))

TrafficEvent(row, s) ==
    Event("CRITICAL", "Traffic",
          Message("Severe congestion at {} - Index: {}",
                  row.Zone_Name, row.Congestion_Index),
          "Deploy traffic management team", Randint(s, 1, 60))

EnergyEvent(row, s) ==
    Event("CRITICAL", "Energy",
          Message("Power outage in {} at {}:00", row.Zone_Name, row.Hour),
          "Emergency restoration initiated", Randint(s, 1, 90))

\* WasteEvent with the severity of the other rules
WasteEventCritical(row, s) ==
    Event("CRITICAL", "Waste",
          Message("Bins {}% full in {}", row.Zone_Name,
                  FormatNoDecimals(row.Avg_Bin_Fill_Level_Percent)),
          "Scheduled priority pickup", Randint(s, 1, 120))

WasteEvent(row, s) ==
    Event("WARNING", "Waste",
          Message("Bins {}% full in {}", row.Zone_Name,
                  FormatNoDecimals(row.Avg_Bin_Fill_Level_Percent)),
          "Scheduled priority pickup", Randint(s, 1, 120))

\* SlaEvent filed under the Traffic domain
SlaEventUnderTraffic(row, s) ==
    Event("CRITICAL", "Traffic",
          Message("SLA breach: {} - {}", row.Issue_Type, row.Ticket_ID),
          "Escalated to supervisor", Randint(s, 1, 45))

SlaEvent(row, s) ==
    Event("CRITICAL", "Citizen Services",
          Message("SLA breach: {} - {}", row.Issue_Type, row.Ticket_ID),
          "Escalated to supervisor", Randint(s, 1, 45))

\* IsCongested with the threshold included
IsCongestedInclusive(r) == r.Congestion_Index >= CongestionThreshold

IsCongested(r) == r.Congestion_Index > CongestionThreshold

IsPowerCut(r) == r.Power_Cut_Flag = 1

IsOverflow(r) == r.Avg_Bin_Fill_Level_Percent > BinFillThreshold * 10

\* sorted(events, key=timestamp, reverse=True): stable, so events with equal
\* timestamps keep their order of generation
RECURSIVE InsertDesc(_, _)
InsertDesc(e, s) ==
    IF Len(s) = 0 THEN <<e>>
    ELSE IF s[1].timestamp >= e.timestamp THEN <<s[1]>> \o InsertDesc(e, Tail(s))
    ELSE <<e>> \o s

\* the sort without reverse=True: ascending by timestamp
RECURSIVE SortedAsc(_)
SortedAsc(evs) ==
    IF Len(evs) = 0 THEN <<>>
    ELSE LET rest == SortedAsc(SubSeq(evs, 1, Len(evs) - 1))
             e    == evs[Len(evs)]
             k    == Cardinality({i \in 1..Len(rest) : rest[i].timestamp <= e.timestamp})
         IN  SubSeq(rest, 1, k) \o <<e>> \o SubSeq(rest, k + 1, Len(rest))

RECURSIVE SortedDesc(_)
SortedDesc(evs) ==
    IF Len(evs) = 0 THEN <<>>
    ELSE InsertDesc(evs[Len(evs)], SortedDesc(SubSeq(evs, 1, Len(evs) - 1)))

\* the events list before the final sort, in order of generation
GeneratedEvents(g, e, t, w, seed) ==
    LET critical_traffic == HeadRows(SelectSeq(t, IsCongested), TrafficCap)
        power_cuts       == HeadRows(SelectSeq(e, IsPowerCut), EnergyCap)
        overflow_bins    == HeadRows(SelectSeq(w, IsOverflow), WasteCap)
        sla_breach       == HeadRows(SelectSeq(g, IsCritical), SlaCap)
        nt == Len(critical_traffic)
        ne == Len(power_cuts)
        nw == Len(overflow_bins)
    IN  [i \in 1..Len(critical_traffic) |->
            TrafficEvent(critical_traffic[i], RngAt(seed, i))]
        \o [i \in 1..Len(power_cuts) |->
            EnergyEvent(power_cuts[i], RngAt(seed, nt + i))]
        \o [i \in 1..Len(overflow_bins) |->
            WasteEvent(overflow_bins[i], RngAt(seed, nt + ne + i))]
        \o [i \in 1..Len(sla_breach) |->
            SlaEvent(sla_breach[i], RngAt(seed, nt + ne + nw + i))]

detect_events(g, e, t, w, seed) == SortedDesc(GeneratedEvents(g, e, t, w, seed))

(***************************************************************************)
(* show_advanced_insights: the daily table and its correlation matrix.     *)
(***************************************************************************)
LCM(a, b) == (a \div GCD(a, b)) * b

\* n1 / d1 < n2 / d2 for naturals with d1, d2 > 0, by continued fractions
\* (no product is formed, so that large terms stay in range)
RECURSIVE FracLess(_, _, _, _)
FracLess(n1, d1, n2, d2) ==
    IF n1 \div d1 # n2 \div d2 THEN n1 \div d1 < n2 \div d2
    ELSE IF n2 % d2 = 0 THEN FALSE
    ELSE IF n1 % d1 = 0 THEN TRUE
    ELSE FracLess(d2, n2 % d2, d1, n1 % d1)

\* the group key of a row
KeyOf(r) == <<r.Date, r.Zone_Name>>

\* the distinct keys of a frame, in order of first appearance (pandas
\* orders the groups by key; the order of the rows is not modelled)
RECURSIVE GroupKeys(_)
GroupKeys(df) ==
    IF Len(df) = 0 THEN <<>>
    ELSE LET front == GroupKeys(SubSeq(df, 1, Len(df) - 1))
             k     == KeyOf(df[Len(df)])
         IN  IF \E i \in 1..Len(front) : front[i] = k THEN front ELSE front \o <<k>>

KeyRows(df, k) == SelectSeq(df, LAMBDA r : KeyOf(r) = k)

\* df.groupby(['Date', 'Zone_Name'])[col].mean().reset_index()
GroupMean(df, col) ==
    LET keys == GroupKeys(df)
    IN  [i \in 1..Len(keys) |->
            ("Date" :> keys[i][1]) @@ ("Zone_Name" :> keys[i][2])
            @@ (col :> Mean(Col(KeyRows(df, keys[i]), col)))]

\* df.groupby(['Date', 'Zone_Name']).size().reset_index(name=col)
GroupSize(df, col) ==
    LET keys == GroupKeys(df)
    IN  [i \in 1..Len(keys) |->
            ("Date" :> keys[i][1]) @@ ("Zone_Name" :> keys[i][2])
            @@ (col :> FromInt(Len(KeyRows(df, keys[i]))))]

RECURSIVE Flatten(_)
Flatten(seqs) == IF Len(seqs) = 0 THEN <<>> ELSE seqs[1] \o Flatten(Tail(seqs))

\* left.merge(right, how='inner'): only the keys present in both frames
InnerMerge(left, right, leftCols, rightCol) ==
    Flatten([i \in 1..Len(left) |->
        LET matches == KeyRows(right, KeyOf(left[i]))
        IN  [j \in 1..Len(matches) |-> left[i] @@ (rightCol :> matches[j][rightCol])]])

\* left.merge(right, on=['Date', 'Zone_Name'], how='outer'): every key of
\* either frame, a column without a value for the key holding NaN
OuterMerge(left, right, leftCols, rightCol) ==
    LET leftRows ==
            Flatten([i \in 1..Len(left) |->
                LET matches == KeyRows(right, KeyOf(left[i]))
                IN  IF Len(matches) = 0
                    THEN <<left[i] @@ (rightCol :> NaN)>>
                    ELSE [j \in 1..Len(matches) |->
                             left[i] @@ (rightCol :> matches[j][rightCol])]])
        rightOnly == SelectSeq(right, LAMBDA r : Len(KeyRows(left, KeyOf(r))) = 0)
    IN  leftRows
        \o [i \in 1..Len(rightOnly) |->
               ("Date" :> rightOnly[i].Date) @@ ("Zone_Name" :> rightOnly[i].Zone_Name)
               @@ [c \in leftCols |-> NaN]
               @@ (rightCol :> rightOnly[i][rightCol])]

CorrColumns ==
    {"Congestion_Index", "Energy_Consumption_kWh", "Avg_Bin_Fill_Level_Percent",
     "Open_Count"}

\* merged.fillna(0)
FillNa(df) ==
    [i \in 1..Len(df) |->
        [c \in DOMAIN df[i] |->
            IF c \in CorrColumns /\ df[i][c].nan THEN FromInt(0) ELSE df[i][c]]]

\* the table of show_advanced_insights: the three daily means and the daily
\* count of Open grievances, outer-merged on (Date, Zone_Name), NaN filled
MergedTable(g, e, t, w) ==
    LET daily_traffic    == GroupMean(t, "Congestion_Index")
        daily_energy     == GroupMean(e, "Energy_Consumption_kWh")
        daily_waste      == GroupMean(w, "Avg_Bin_Fill_Level_Percent")
        daily_grievances == GroupSize(SelectSeq(g, IsOpen), "Open_Count")
        m1 == OuterMerge(daily_traffic, daily_energy,
                         {"Congestion_Index"}, "Energy_Consumption_kWh")
        m2 == OuterMerge(m1, daily_waste,
                         {"Congestion_Index", "Energy_Consumption_kWh"},
                         "Avg_Bin_Fill_Level_Percent")
        m3 == OuterMerge(m2, daily_grievances,
                         {"Congestion_Index", "Energy_Consumption_kWh",
                          "Avg_Bin_Fill_Level_Percent"}, "Open_Count")
    IN  FillNa(m3)

\* a correlation coefficient r: NaN, or its sign and the two regression
\* slopes cov/var(x) and cov/var(y), whose product is r * r
NaNCorr == [nan |-> TRUE, sign |-> 0, byx |-> FromInt(0), bxy |-> FromInt(0)]

RECURSIVE LCMOfDens(_)
LCMOfDens(xs) == IF Len(xs) = 0 THEN 1 ELSE LCM(xs[1].den, LCMOfDens(Tail(xs)))

RECURSIVE GCDOf(_)
GCDOf(ns) == IF Len(ns) = 0 THEN 0 ELSE GCD(Abs(ns[1]), GCDOf(Tail(ns)))

\* the deviations of a column from its mean, as integers: each x - mean(x)
\* times one positive factor for the whole column (r does not depend on it)
Deviations(xs) ==
    LET l  == LCMOfDens(xs)
        up == [i \in 1..Len(xs) |-> xs[i].num * (l \div xs[i].den)]
        d  == [i \in 1..Len(xs) |-> Len(xs) * up[i] - Sum(up)]
        g  == GCDOf(d)
    IN  IF g = 0 THEN d ELSE [i \in 1..Len(xs) |-> d[i] \div g]

\* Pearson correlation of two columns as DataFrame.corr() computes it: NaN
\* when a column has no variance (also with fewer than two rows)
Pearson(xs, ys) ==
    LET dx  == Deviations(xs)
        dy  == Deviations(ys)
        sxx == Sum([i \in 1..Len(xs) |-> dx[i] * dx[i]])
        syy == Sum([i \in 1..Len(ys) |-> dy[i] * dy[i]])
        sxy == Sum([i \in 1..Len(xs) |-> dx[i] * dy[i]])
    IN  IF sxx = 0 \/ syy = 0 THEN NaNCorr
        ELSE [nan  |-> FALSE,
              sign |-> IF sxy > 0 THEN 1 ELSE IF sxy < 0 THEN 0 - 1 ELSE 0,
              byx  |-> Rat(sxy, sxx),
              bxy  |-> Rat(sxy, syy)]

\* merged[[the four columns]].corr()
CorrMatrix(m) ==
    [a \in CorrColumns |-> [b \in CorrColumns |-> Pearson(Col(m, a), Col(m, b))]]

\* r > p / q for a coefficient c and a threshold p / q > 0; false on NaN
CorrAbove(c, p, q) ==
    /\ ~c.nan
    /\ c.sign = 1
    /\ FracLess(p * p * c.bxy.den, q * q * c.bxy.num, c.byx.num, c.byx.den)

\* abs(r) > p / q
CorrMagnitudeAbove(c, p, q) ==
    /\ ~c.nan
    /\ c.sign # 0
    /\ FracLess(p * p * c.bxy.den, q * q * Abs(c.bxy.num), Abs(c.byx.num), c.byx.den)

\* Findings with both thresholds compared on the magnitude of the coefficient
FindingsOnMagnitude(c) ==
    <<IF CorrMagnitudeAbove(c["Congestion_Index"]["Energy_Consumption_kWh"], 1, 2)
      THEN "Strong positive correlation between traffic congestion and energy consumption"
      ELSE "Traffic and energy patterns show moderate correlation",
      IF CorrMagnitudeAbove(c["Open_Count"]["Avg_Bin_Fill_Level_Percent"], 2, 5)
      THEN "High bin fill levels correlate with increased grievances"
      ELSE "Waste management and grievances show independent patterns">>

\* Key Finding 1 (threshold 0.5) and Key Finding 2 (threshold 0.4); each text
\* is given by its first sentence or clause
Findings(c) ==
    <<IF CorrAbove(c["Congestion_Index"]["Energy_Consumption_kWh"], 1, 2)
      THEN "Strong positive correlation between traffic congestion and energy consumption"
      ELSE "Traffic and energy patterns show moderate correlation",
      IF CorrAbove(c["Open_Count"]["Avg_Bin_Fill_Level_Percent"], 2, 5)
      THEN "High bin fill levels correlate with increased grievances"
      ELSE "Waste management and grievances show independent patterns">>

(***************************************************************************)
(* show_ml_analytics: the traffic anomaly detector.                        *)
(***************************************************************************)
\* x < y on numbers; any comparison with NaN is false
RLess(x, y) == ~x.nan /\ ~y.nan /\ x.num * y.den < y.num * x.den

RSquare(x) == IF x.nan THEN NaN ELSE Rat(x.num * x.num, x.den * x.den)

RTimesInt(x, k) == IF x.nan THEN NaN ELSE Rat(x.num * k, x.den)

\* the distinct hours of a frame in ascending order, the group keys of
\* groupby('Hour')
RECURSIVE SortedHours(_)
SortedHours(hours) ==
    IF hours = {} THEN <<>>
    ELSE LET h == CHOOSE x \in hours : \A y \in hours : x <= y
         IN  <<h>> \o SortedHours(hours \ {h})

HourRows(df, h) == SelectSeq(df, LAMBDA r : r.Hour = h)

\* the square of Series.std(): the sample variance (ddof = 1), NaN for a
\* group of one record.  A standard deviation is kept by its square.
SampleVariance(xs) ==
    IF Len(xs) < 2 THEN NaN
    ELSE Rat(Len(xs) * Sum([i \in 1..Len(xs) |-> xs[i] * xs[i]]) - Sum(xs) * Sum(xs),
             Len(xs) * (Len(xs) - 1))

\* mean + k * std as a value: NaN, or the centre, the factor k and the
\* variance whose root is taken
BandEdge(mean, k, variance) ==
    [nan |-> mean.nan \/ variance.nan, centre |-> mean, k |-> k, variance |-> variance]

\* x > edge
Above(x, edge) ==
    /\ ~x.nan
    /\ ~edge.nan
    /\ LET d    == RSub(x, edge.centre)
           dd   == RSquare(d)
           kkvv == RTimesInt(edge.variance, edge.k * edge.k)
       IN  IF edge.k >= 0 THEN d.num > 0 /\ RLess(kkvv, dd)
                          ELSE d.num >= 0 \/ RLess(dd, kkvv)

\* x < edge
Below(x, edge) ==
    /\ ~x.nan
    /\ ~edge.nan
    /\ LET d    == RSub(x, edge.centre)
           dd   == RSquare(d)
           kkvv == RTimesInt(edge.variance, edge.k * edge.k)
       IN  IF edge.k <= 0 THEN d.num < 0 /\ RLess(kkvv, dd)
                          ELSE d.num <= 0 \/ RLess(dd, kkvv)

\* AnomalyData with the two edges of the band exchanged
AnomalyDataInvertedBand(t) ==
    LET hours == SortedHours(Unique(Col(t, "Hour")))
    IN  [i \in 1..Len(hours) |->
            LET xs == Col(HourRows(t, hours[i]), "Congestion_Index")
            IN  [Hour  |-> hours[i],
                 mean  |-> Mean(xs),
                 std   |-> SampleVariance(xs),
                 upper |-> BandEdge(Mean(xs), 0 - 2, SampleVariance(xs)),
                 lower |-> BandEdge(Mean(xs), 2, SampleVariance(xs))]]

\* traffic.groupby('Hour')['Congestion_Index'].agg(['mean', 'std']) with the
\* columns upper = mean + 2*std and lower = mean - 2*std
AnomalyData(t) ==
    LET hours == SortedHours(Unique(Col(t, "Hour")))
    IN  [i \in 1..Len(hours) |->
            LET xs == Col(HourRows(t, hours[i]), "Congestion_Index")
            IN  [Hour  |-> hours[i],
                 mean  |-> Mean(xs),
                 std   |-> SampleVariance(xs),
                 upper |-> BandEdge(Mean(xs), 2, SampleVariance(xs)),
                 lower |-> BandEdge(Mean(xs), 0 - 2, SampleVariance(xs))]]

\* traffic.groupby('Hour')['Congestion_Index'].mean().reset_index()
ActualTraffic(t) ==
    LET hours == SortedHours(Unique(Col(t, "Hour")))
    IN  [i \in 1..Len(hours) |->
            [Hour             |-> hours[i],
             Congestion_Index |-> Mean(Col(HourRows(t, hours[i]), "Congestion_Index"))]]

RECURSIVE RowsAt(_, _)
\* the rows of df at the positions of the set I, in order
RowsAt(df, I) ==
    IF Len(df) = 0 THEN <<>>
    ELSE RowsAt(SubSeq(df, 1, Len(df) - 1), I)
         \o (IF Len(df) \in I THEN <<df[Len(df)]>> ELSE <<>>)

\* Anomalies flagging the hours inside the band instead of those outside
AnomaliesInsideBand(actual, data) ==
    RowsAt(actual, {i \in 1..Len(actual) :
                       /\ ~data[i].upper.nan
                       /\ ~Above(actual[i].Congestion_Index, data[i].upper)
                       /\ ~Below(actual[i].Congestion_Index, data[i].lower)})

\* actual_traffic[(value > upper) | (value < lower)], compared by position
Anomalies(actual, data) ==
    RowsAt(actual, {i \in 1..Len(actual) :
                       \/ Above(actual[i].Congestion_Index, data[i].upper)
                       \/ Below(actual[i].Congestion_Index, data[i].lower)})

\* st.warning with the number of anomalies, shown when there is one
Warning(found) == IF Len(found) > 0 THEN <<Len(found)>> ELSE <<>>

(***************************************************************************)
(* The application: load_data once, then one run of main at start and at   *)
(* every change of a sidebar widget.                                       *)
(***************************************************************************)
Pages == {"System Architecture", "Executive Dashboard", "ML Analytics & Predictions",
          "Event Processing & Rules", "Advanced Insights"}

Seeds == 0..MaxSeed

NoKpis == [outcome |-> "none"]

Files == {"grievances", "energy", "traffic", "waste"}

\* the condition of the four CSV files: sound, or one fault in one file
NoFault == [fault |-> "none", file |-> "", column |-> ""]

\* the columns a faulty file may lack: Date, read by load_data, and columns
\* read later by calculate_kpis or by detect_events only
FaultColumns ==
    {<<f, "Date">> : f \in Files}
    \cup {<<"grievances", "Status">>, <<"grievances", "Issue_Type">>,
          <<"energy", "Power_Cut_Flag">>, <<"traffic", "Congestion_Index">>}

Faults ==
    {[fault |-> "file_not_found", file |-> f, column |-> ""] : f \in Files}
    \cup {[fault |-> "unparseable_date", file |-> f, column |-> ""] : f \in Files}
    \cup {[fault |-> "missing_column", file |-> fc[1], column |-> fc[2]] :
             fc \in FaultColumns}

\* the exception raised inside the try block of load_data, "none" without:
\* read_csv raises FileNotFoundError, df['Date'] raises KeyError,
\* pd.to_datetime raises ValueError
LoadError(src) ==
    IF src.fault = "file_not_found" THEN "FileNotFoundError"
    ELSE IF src.fault = "unparseable_date" THEN "ValueError"
    ELSE IF src.fault = "missing_column" /\ src.column = "Date" THEN "KeyError"
    ELSE "none"

\* a frame read from a file that lacks a column
DropColumn(df, column) ==
    [i \in 1..Len(df) |-> [c \in (DOMAIN df[i]) \ {column} |-> df[i][c]]]

ReadCsv(src, file, df) ==
    IF src.fault = "missing_column" /\ src.file = file
    THEN DropColumn(df, src.column) ELSE df

\* load_data on files of n.g, n.e, n.t and n.w rows: the four frames, or
\* four times None after any exception (the frames are then not read)
load_data(src, n) ==
    IF LoadError(src) # "none"
    THEN [outcome |-> "None", error |-> LoadError(src),
          grievances |-> <<>>, energy |-> <<>>, traffic |-> <<>>, waste |-> <<>>]
    ELSE [outcome    |-> "frames", error |-> "none",
          grievances |-> ReadCsv(src, "grievances", Frame(GrievanceRow, n.g)),
          energy     |-> ReadCsv(src, "energy", Frame(EnergyRow, n.e)),
          traffic    |-> ReadCsv(src, "traffic", Frame(TrafficRow, n.t)),
          waste      |-> ReadCsv(src, "waste", Frame(WasteRow, n.w))]

\* the columns calculate_kpis reads
KpiColumns ==
    {<<"energy", "Energy_Consumption_kWh">>, <<"energy", "Power_Cut_Flag">>,
     <<"energy", "Grid_Voltage">>, <<"energy", "Zone_Name">>,
     <<"traffic", "Congestion_Index">>, <<"traffic", "Zone_Name">>,
     <<"waste", "Avg_Bin_Fill_Level_Percent">>, <<"waste", "Missed_Pickups">>,
     <<"waste", "Segregation_Efficiency_Percent">>, <<"waste", "Zone_Name">>,
     <<"grievances", "Status">>, <<"grievances", "SLA_Days">>,
     <<"grievances", "Zone_Name">>}

\* KpisOf handing out the snapshot of an earlier run when there is one
KpisOfCached(src, g, e, t, w) ==
    IF src.fault = "missing_column" /\ <<src.file, src.column>> \in KpiColumns
    THEN [outcome |-> "raised", error |-> "KeyError"]
    ELSE IF kpis.outcome = "returned" THEN kpis
    ELSE calculate_kpis(g, e, t, w)

\* calculate_kpis on frames of the source src: a column lookup on a frame
\* that lacks the column raises KeyError, before the division is reached
KpisOf(src, g, e, t, w) ==
    IF src.fault = "missing_column" /\ <<src.file, src.column>> \in KpiColumns
    THEN [outcome |-> "raised", error |-> "KeyError"]
    ELSE calculate_kpis(g, e, t, w)

\* detect_events raises KeyError: row['Issue_Type'] in the loop over the
\* SLA breaches, when the grievance frame lacks the column and a breach exists
DetectRaises(src, g) ==
    /\ src.fault = "missing_column"
    /\ src.file = "grievances"
    /\ src.column = "Issue_Type"
    /\ Len(SelectSeq(g, IsCritical)) > 0

\* the number of entries of a list of dicts per value of a key, after
\* pd.DataFrame(events).groupby(key).size()
GroupSizes(list, key) ==
    [v \in {list[i][key] : i \in 1..Len(list)} |->
        Cardinality({i \in 1..Len(list) : list[i][key] = v})]

\* the four st.metric values of the event summary
EventMetrics(ev) ==
    [total    |-> Len(ev),
     critical |-> Len(SelectSeq(ev, LAMBDA x : x.type = "CRITICAL")),
     warning  |-> Len(SelectSeq(ev, LAMBDA x : x.type = "WARNING")),
     actions  |-> Len(ev)]

NoEventPage ==
    [outcome |-> "none", error |-> "none", detected |-> FALSE, events |-> <<>>,
     metrics |-> <<>>, charts |-> <<>>, feed |-> <<>>]

\* show_event_processing showing the whole list in the feed
show_event_processing_uncut(src, g, e, t, w, seed) ==
    IF DetectRaises(src, g)
    THEN [NoEventPage EXCEPT !.outcome = "raised", !.error = "KeyError"]
    ELSE LET ev == detect_events(g, e, t, w, seed)
         IN  IF Len(ev) = 0
             THEN [outcome |-> "raised", error |-> "KeyError", detected |-> TRUE,
                   events  |-> ev,
                   metrics |-> <<EventMetrics(ev)>>, charts |-> <<>>, feed |-> <<>>]
             ELSE [outcome |-> "completed", error |-> "none", detected |-> TRUE,
                   events  |-> ev,
                   metrics |-> <<EventMetrics(ev)>>,
                   charts  |-> <<[by_domain |-> GroupSizes(ev, "domain"),
                                  by_type   |-> GroupSizes(ev, "type")]>>,
                   feed    |-> ev]

\* show_event_processing: detect_events, the four metrics, the two charts
\* (pd.DataFrame([]) has no column 'domain': groupby raises KeyError on an
\* empty list, after the metrics are shown), then the feed events[:15]
show_event_processing(src, g, e, t, w, seed) ==
    IF DetectRaises(src, g)
    THEN [NoEventPage EXCEPT !.outcome = "raised", !.error = "KeyError"]
    ELSE LET ev == detect_events(g, e, t, w, seed)
         IN  IF Len(ev) = 0
             THEN [outcome |-> "raised", error |-> "KeyError", detected |-> TRUE,
                   events  |-> ev,
                   metrics |-> <<EventMetrics(ev)>>, charts |-> <<>>, feed |-> <<>>]
             ELSE [outcome |-> "completed", error |-> "none", detected |-> TRUE,
                   events  |-> ev,
                   metrics |-> <<EventMetrics(ev)>>,
                   charts  |-> <<[by_domain |-> GroupSizes(ev, "domain"),
                                  by_type   |-> GroupSizes(ev, "type")]>>,
                   feed    |-> HeadRows(ev, FeedCap)]

\* grievances['Date'].min() and .max(): the limits of the date widget
DateLimits(g) ==
    LET dates == Unique(Col(g, "Date"))
    IN  <<CHOOSE d \in dates : \A x \in dates : d <= x,
          CHOOSE d \in dates : \A x \in dates : d >= x>>

\* the ranges the date widget can deliver
DateRanges ==
    LET lim == DateLimits(grievances)
    IN  {dr \in (lim[1]..lim[2]) \X (lim[1]..lim[2]) : dr[1] <= dr[2]}

\* the options of the zone widget
ZoneOptions(g) == Unique(Col(g, "Zone_Name"))

\* the row counts of the four files: short files, or files long enough to
\* reach and to exceed the caps of detect_events
RowCounts ==
    [g : 1..MaxRows, e : 0..MaxRows, t : 0..MaxRows, w : 0..MaxRows]
    \cup [g : (MaxGrievances - 1)..MaxGrievances, e : (MaxEnergy - 1)..MaxEnergy,
          t : (MaxTraffic - 1)..MaxTraffic, w : (MaxWaste - 1)..MaxWaste]

\* the files read by load_data: sound files of any of the row counts, or
\* short files with one fault
Inputs ==
    {[source |-> NoFault, n |-> n] : n \in RowCounts}
    \cup {[source |-> src, n |-> [g |-> k, e |-> 1, t |-> 1, w |-> 1]] :
             src \in Faults, k \in 1..MaxFaultRows}

\* after load_data (cached, so run once): its result is held, the widgets
\* hold their defaults (none exists when load_data gave None), main has not
\* computed anything yet
Init ==
    /\ \E in \in Inputs :
          LET data == load_data(in.source, in.n)
          IN  /\ source = in.source
              /\ loaded = data.outcome
              /\ load_error = data.error
              /\ grievances = data.grievances
              /\ energy = data.energy
              /\ traffic = data.traffic
              /\ waste = data.waste
              /\ date_range = IF data.outcome = "None" THEN <<>>
                              ELSE DateLimits(data.grievances)
              /\ zone_filter = IF data.outcome = "None" THEN {}
                               ELSE ZoneOptions(data.grievances)
    /\ page = "System Architecture"
    /\ grievances_filtered = <<>>
    /\ energy_filtered = <<>>
    /\ traffic_filtered = <<>>
    /\ waste_filtered = <<>>
    /\ kpis = NoKpis
    /\ events = <<>>
    /\ event_page = NoEventPage
    /\ merged = <<>>
    /\ corr_matrix = <<>>
    /\ findings = <<>>
    /\ anomaly_data = <<>>
    /\ anomalies = <<>>
    /\ warning = <<>>
    /\ pc = "start"

\* one run of main with the widget values p, dr, zf: it returns at once when
\* load_data gave None; else filter, calculate_kpis, then the selected page
\* (show_ml_analytics looks for traffic anomalies, show_event_processing
\* calls detect_events, show_advanced_insights builds the table, the matrix
\* and the findings); an exception in calculate_kpis ends the run
Main(p, dr, zf) ==
    /\ page' = p
    /\ IF loaded = "None"
       THEN /\ pc' = "load_failed"
            /\ UNCHANGED <<date_range, zone_filter, grievances_filtered,
                           energy_filtered, traffic_filtered, waste_filtered,
                           kpis, events, event_page, merged, corr_matrix,
                           findings, anomaly_data, anomalies, warning>>
       ELSE LET f == FilterData(grievances, energy, traffic, waste, dr, zf)
                k == KpisOf(source, f.grievances, f.energy, f.traffic, f.waste)
                returned == k.outcome = "returned"
            IN  /\ date_range' = dr
                /\ zone_filter' = zf
                /\ grievances_filtered' = f.grievances
                /\ energy_filtered' = f.energy
                /\ traffic_filtered' = f.traffic
                /\ waste_filtered' = f.waste
                /\ kpis' = k
                /\ IF returned /\ p = "Event Processing & Rules"
                   THEN \E seed \in Seeds :
                           /\ event_page' = show_event_processing(
                                  source, f.grievances, f.energy, f.traffic,
                                  f.waste, seed)
                           /\ events' = event_page'.events
                           /\ pc' = IF event_page'.outcome = "raised"
                                    THEN "page_error" ELSE "rendered"
                   ELSE /\ event_page' = NoEventPage
                        /\ events' = <<>>
                        /\ pc' = IF returned THEN "rendered" ELSE "error"
                /\ IF returned /\ p = "Advanced Insights"
                   THEN /\ merged' = MergedTable(f.grievances, f.energy,
                                                 f.traffic, f.waste)
                        /\ corr_matrix' = CorrMatrix(merged')
                        /\ findings' = Findings(corr_matrix')
                   ELSE /\ merged' = <<>>
                        /\ corr_matrix' = <<>>
                        /\ findings' = <<>>
                /\ IF returned /\ p = "ML Analytics & Predictions"
                   THEN /\ anomaly_data' = AnomalyData(f.traffic)
                        /\ anomalies' = Anomalies(ActualTraffic(f.traffic),
                                                  anomaly_data')
                        /\ warning' = Warning(anomalies')
                   ELSE /\ anomaly_data' = <<>>
                        /\ anomalies' = <<>>
                        /\ warning' = <<>>
    /\ UNCHANGED <<source, loaded, load_error, grievances, energy, traffic, waste>>

\* the first run, or a rerun with unchanged widgets
Rerun == Main(page, date_range, zone_filter)

SelectPage == \E p \in Pages \ {page} : Main(p, date_range, zone_filter)

\* the date and zone widgets exist only when load_data gave the frames
SetDateRange ==
    /\ loaded = "frames"
    /\ \E dr \in DateRanges \ {date_range} : Main(page, dr, zone_filter)

SetZones ==
    /\ loaded = "frames"
    /\ \E zf \in (SUBSET ZoneOptions(grievances)) \ {zone_filter} :
          Main(page, date_range, zf)

Next == Rerun \/ SelectPage \/ SetDateRange \/ SetZones

Spec == Init /\ [][Next]_vars

(***************************************************************************)
(* Properties.  main has run on soundly loaded frames once pc differs from  *)
(* "start" (Started covers the faulty sources too); calculate_kpis has     *)
(* returned when kpis.outcome = "returned".                                *)
(***************************************************************************)
HasRun == pc \notin {"start", "load_failed"} /\ source.fault = "none"

Returned == kpis.outcome = "returned"

\* the positions of the rows of df that satisfy Test
Matching(df, Test(_)) == {i \in 1..Len(df) : Test(df[i])}

RECURSIVE SumAt(_, _, _)
\* the sum of column name of df over the positions in I
SumAt(df, name, I) ==
    IF I = {} THEN 0
    ELSE LET i == CHOOSE x \in I : TRUE
         IN  df[i][name] + SumAt(df, name, I \ {i})

Zero == [nan |-> FALSE, num |-> 0, den |-> 1]

One == [nan |-> FALSE, num |-> 1, den |-> 1]

\* C1: with an empty filtered grievance collection calculate_kpis returns,
\* with resolution_rate = 0, critical_issues = 0, total_grievances = 0 and
\* open_grievances = 0, whatever the other three frames hold.
C1_EmptyGrievancesDefined ==
    (HasRun /\ grievances_filtered = <<>>) =>
        /\ Returned
        /\ kpis.resolution_rate = Zero
        /\ kpis.critical_issues = 0
        /\ kpis.total_grievances = 0
        /\ kpis.open_grievances = 0

\* C2: for every date range and zone selection resolution_rate is a defined
\* value in [0,1]: resolved / total when total > 0, and 0 when total = 0.
C2_ResolutionRateDefined ==
    HasRun =>
        LET total    == Len(grievances_filtered)
            resolved == Cardinality(Matching(grievances_filtered,
                                             LAMBDA r : r.Status = "Resolved"))
        IN  /\ Returned
            /\ ~kpis.resolution_rate.nan
            /\ 0 <= kpis.resolution_rate.num
            /\ kpis.resolution_rate.num <= kpis.resolution_rate.den
            /\ IF total > 0
               THEN kpis.resolution_rate.num * total
                       = resolved * kpis.resolution_rate.den
               ELSE kpis.resolution_rate = Zero

\* C3: every mean over an empty filtered frame is 0 and nothing is raised:
\* avg_energy = 0 on empty energy, avg_congestion = 0 and flow_efficiency = 1
\* on empty traffic, avg_bin_fill = 0 and avg_segregation = 0 on empty waste.
C3_EmptyMeansAreZero ==
    HasRun =>
        /\ energy_filtered = <<>> => Returned /\ kpis.avg_energy = Zero
        /\ traffic_filtered = <<>> =>
              Returned /\ kpis.avg_congestion = Zero /\ kpis.flow_efficiency = One
        /\ waste_filtered = <<>> =>
              Returned /\ kpis.avg_bin_fill = Zero /\ kpis.avg_segregation = Zero

\* the record r passes the current filter
Selected(r) ==
    /\ date_range[1] <= r.Date
    /\ r.Date <= date_range[2]
    /\ r.Zone_Name \in zone_filter

\* out holds exactly the selected rows of df, in the order of df
ExactlySelected(df, out) ==
    LET keep == Matching(df, Selected)
    IN  /\ Len(out) = Cardinality(keep)
        /\ \A i \in keep :
              out[Cardinality({j \in keep : j < i}) + 1] = df[i]

\* C4: each filtered frame holds exactly the rows of its frame with
\* start <= Date <= end and Zone_Name among the selected zones, in the
\* original order.
C4_FilterExact ==
    HasRun =>
        /\ ExactlySelected(grievances, grievances_filtered)
        /\ ExactlySelected(energy, energy_filtered)
        /\ ExactlySelected(traffic, traffic_filtered)
        /\ ExactlySelected(waste, waste_filtered)

\* a run that kept two traffic rows, one of them on the single day of the
\* range, and dropped one row for its date and one for its zone
C4_Witness ==
    /\ HasRun
    /\ date_range[1] = date_range[2]
    /\ Len(traffic_filtered) >= 2
    /\ \E i \in 1..Len(traffic) :
          traffic[i].Zone_Name \in zone_filter /\ traffic[i].Date > date_range[2]
    /\ \E i \in 1..Len(traffic) :
          traffic[i].Zone_Name \notin zone_filter /\ traffic[i].Date = date_range[1]

\* the frames another data source could have delivered in place of a frame
OtherFrames(Row(_)) == {Frame(Row, n) : n \in 0..MaxRows}

\* C5: the filtered result of a frame depends on that frame, the date range
\* and the zone set only, and a selected zone without rows in a frame gives
\* an empty sub-collection of that frame, the filter completing all the same.
C5_FilterIndependent ==
    HasRun =>
        /\ \A g2 \in OtherFrames(GrievanceRow) :
              LET f == FilterData(g2, energy, traffic, waste, date_range, zone_filter)
              IN  /\ f.energy = energy_filtered
                  /\ f.traffic = traffic_filtered
                  /\ f.waste = waste_filtered
        /\ \A e2 \in OtherFrames(EnergyRow) :
              LET f == FilterData(grievances, e2, traffic, waste, date_range, zone_filter)
              IN  /\ f.grievances = grievances_filtered
                  /\ f.traffic = traffic_filtered
                  /\ f.waste = waste_filtered
        /\ \A t2 \in OtherFrames(TrafficRow) :
              LET f == FilterData(grievances, energy, t2, waste, date_range, zone_filter)
              IN  /\ f.grievances = grievances_filtered
                  /\ f.energy = energy_filtered
                  /\ f.waste = waste_filtered
        /\ \A w2 \in OtherFrames(WasteRow) :
              LET f == FilterData(grievances, energy, traffic, w2, date_range, zone_filter)
              IN  /\ f.grievances = grievances_filtered
                  /\ f.energy = energy_filtered
                  /\ f.traffic = traffic_filtered
        /\ \A z \in zone_filter :
              /\ Matching(grievances, LAMBDA r : r.Zone_Name = z) = {}
                    => ZoneRows(grievances_filtered, z) = <<>>
              /\ Matching(energy, LAMBDA r : r.Zone_Name = z) = {}
                    => ZoneRows(energy_filtered, z) = <<>>
              /\ Matching(traffic, LAMBDA r : r.Zone_Name = z) = {}
                    => ZoneRows(traffic_filtered, z) = <<>>
              /\ Matching(waste, LAMBDA r : r.Zone_Name = z) = {}
                    => ZoneRows(waste_filtered, z) = <<>>

\* a run with a selected zone that has grievances but no traffic row at all,
\* while the energy frame keeps rows
C5_Witness ==
    /\ HasRun
    /\ \E z \in zone_filter :
          /\ Matching(traffic, LAMBDA r : r.Zone_Name = z) = {}
          /\ ZoneRows(grievances_filtered, z) # <<>>
    /\ traffic # <<>>
    /\ energy_filtered # <<>>

\* the zones with at least one filtered traffic record
TrafficZones == {traffic_filtered[i].Zone_Name : i \in 1..Len(traffic_filtered)}

\* mean congestion + 20 * power cuts + 10 * missed pickups + 5 * open
\* grievances of zone z, over the filtered frames
StressFormula(z) ==
    LET InZone(r)  == r.Zone_Name = z
        rows       == Matching(traffic_filtered, InZone)
        n          == Cardinality(rows)
        cuts       == Cardinality(Matching(energy_filtered,
                          LAMBDA r : InZone(r) /\ r.Power_Cut_Flag = 1))
        missed     == SumAt(waste_filtered, "Missed_Pickups",
                            Matching(waste_filtered, InZone))
        open       == Cardinality(Matching(grievances_filtered,
                          LAMBDA r : InZone(r) /\ r.Status = "Open"))
    IN  Rat(SumAt(traffic_filtered, "Congestion_Index", rows)
              + n * (20 * cuts + 10 * missed + 5 * open), n)

\* C6: for every zone z with a filtered traffic record, zone_stress[z] is
\* mean congestion + 20 * power cuts + 10 * missed pickups + 5 * open
\* grievances of z; a frame without rows for z contributes 0 and nothing is
\* raised.
C6_ZoneStressFormula ==
    HasRun =>
        \A z \in TrafficZones :
            /\ Returned
            /\ z \in DOMAIN kpis.zone_stress
            /\ kpis.zone_stress[z] = StressFormula(z)

\* C7: the keys of the zone_stress mapping that calculate_kpis returns are
\* the distinct zones of the filtered traffic frame; a zone with grievance,
\* energy or waste records but no traffic record has no entry.
C7_StressKeysAreTrafficZones ==
    Returned => DOMAIN kpis.zone_stress = TrafficZones

\* a returned mapping with an entry, while a zone with filtered grievance,
\* energy and waste rows has no filtered traffic row
C7_Witness ==
    /\ Returned
    /\ DOMAIN kpis.zone_stress # {}
    /\ \E z \in zone_filter :
          /\ z \notin TrafficZones
          /\ ZoneRows(grievances_filtered, z) # <<>>
          /\ ZoneRows(energy_filtered, z) # <<>>
          /\ ZoneRows(waste_filtered, z) # <<>>

\* the filtered frames satisfy the schema ranges of the stress inputs
SchemaValid ==
    /\ \A i \in 1..Len(traffic_filtered) :
          traffic_filtered[i].Congestion_Index \in 0..100
    /\ \A i \in 1..Len(energy_filtered) :
          energy_filtered[i].Power_Cut_Flag \in {0, 1}
    /\ \A i \in 1..Len(waste_filtered) :
          waste_filtered[i].Missed_Pickups >= 0

\* C8: on schema-valid input every value of the zone_stress mapping is a
\* defined number >= 0, also for a zone without rows in some frame.
C8_StressDefinedNonNegative ==
    (Returned /\ SchemaValid) =>
        \A z \in DOMAIN kpis.zone_stress :
            /\ ~kpis.zone_stress[z].nan
            /\ kpis.zone_stress[z].num >= 0
            /\ kpis.zone_stress[z].den > 0

\* a returned mapping with an entry for a zone that has missed pickups but
\* no energy row and no grievance among the filtered frames
C8_Witness ==
    /\ Returned
    /\ SchemaValid
    /\ \E z \in DOMAIN kpis.zone_stress :
          /\ ZoneRows(energy_filtered, z) = <<>>
          /\ ZoneRows(grievances_filtered, z) = <<>>
          /\ \E i \in 1..Len(waste_filtered) :
                waste_filtered[i].Zone_Name = z /\ waste_filtered[i].Missed_Pickups > 0

\* show_event_processing has called detect_events in the last run
Detected == page = "Event Processing & Rules" /\ event_page.detected

\* the number of events of a domain in the feed
EventCount(domain) == Cardinality({i \in 1..Len(events) : events[i].domain = domain})

Congested == Matching(traffic_filtered, LAMBDA r : r.Congestion_Index > 85)

PowerCut == Matching(energy_filtered, LAMBDA r : r.Power_Cut_Flag = 1)

Overflowing == Matching(waste_filtered, LAMBDA r : r.Avg_Bin_Fill_Level_Percent > 850)

Breached == Matching(grievances_filtered,
                     LAMBDA r : r.Status = "Open" /\ r.SLA_Days <= 1)

\* C9: one detect_events pass gives min(cap, matching rows) events per rule,
\* with strict thresholds: min(5, rows with Congestion_Index > 85) Traffic,
\* min(3, rows with Power_Cut_Flag = 1) Energy, min(3, rows with bin fill
\* > 85) Waste, min(5, Open grievances with SLA_Days <= 1) Citizen Services
\* events, and at most 16 events in all.
C9_EventsPerRule ==
    Detected =>
        /\ EventCount("Traffic") = Min(5, Cardinality(Congested))
        /\ EventCount("Energy") = Min(3, Cardinality(PowerCut))
        /\ EventCount("Waste") = Min(3, Cardinality(Overflowing))
        /\ EventCount("Citizen Services") = Min(5, Cardinality(Breached))
        /\ Len(events) = EventCount("Traffic") + EventCount("Energy")
                           + EventCount("Waste") + EventCount("Citizen Services")
        /\ Len(events) <= 16

\* a pass over frames that exceed all four caps and hold a row with
\* Congestion_Index exactly 85 and a row with bin fill exactly 85
C9_Witness ==
    /\ Detected
    /\ Len(events) = 16
    /\ Cardinality(Congested) > 5
    /\ Cardinality(PowerCut) > 3
    /\ Cardinality(Overflowing) > 3
    /\ Cardinality(Breached) > 5
    /\ \E i \in 1..Len(traffic_filtered) : traffic_filtered[i].Congestion_Index = 85
    /\ \E i \in 1..Len(waste_filtered) :
          waste_filtered[i].Avg_Bin_Fill_Level_Percent = 850

\* the first n positions of I
FirstOf(I, n) == {i \in I : Cardinality({j \in I : j < i}) < n}

\* the messages of the events of a domain, as a bag
MessageCount(domain, m) ==
    Cardinality({i \in 1..Len(events) :
                    events[i].domain = domain /\ events[i].message = m})

\* the events of a domain are built one for one from the rows of df at the
\* positions I, Text(r) being the message of row r
BuiltFrom(domain, df, I, Text(_)) ==
    /\ EventCount(domain) = Cardinality(I)
    /\ \A i \in I :
          MessageCount(domain, Text(df[i]))
             = Cardinality({j \in I : Text(df[j]) = Text(df[i])})

TrafficText(r) ==
    [template |-> "Severe congestion at {} - Index: {}",
     first |-> r.Zone_Name, second |-> r.Congestion_Index]

EnergyText(r) ==
    [template |-> "Power outage in {} at {}:00",
     first |-> r.Zone_Name, second |-> r.Hour]

WasteText(r) ==
    [template |-> "Bins {}% full in {}", first |-> r.Zone_Name,
     second |-> FormatNoDecimals(r.Avg_Bin_Fill_Level_Percent)]

SlaText(r) ==
    [template |-> "SLA breach: {} - {}",
     first |-> r.Issue_Type, second |-> r.Ticket_ID]

\* C10: the events of a rule are built, one event per row, from the first N
\* matching rows of the filtered frame in frame order, N being the cap of
\* the rule, also when more rows match.
C10_FirstMatchingRows ==
    Detected =>
        /\ BuiltFrom("Traffic", traffic_filtered, FirstOf(Congested, 5), TrafficText)
        /\ BuiltFrom("Energy", energy_filtered, FirstOf(PowerCut, 3), EnergyText)
        /\ BuiltFrom("Waste", waste_filtered, FirstOf(Overflowing, 3), WasteText)
        /\ BuiltFrom("Citizen Services", grievances_filtered,
                     FirstOf(Breached, 5), SlaText)

\* a pass with more congested rows than the cap, where a congested row
\* beyond the first five has a higher index than one of the first five and
\* its message is not in the feed
C10_Witness ==
    /\ Detected
    /\ \E i \in Congested \ FirstOf(Congested, 5) :
          /\ \E j \in FirstOf(Congested, 5) :
                traffic_filtered[j].Congestion_Index
                   < traffic_filtered[i].Congestion_Index
          /\ MessageCount("Traffic", TrafficText(traffic_filtered[i])) = 0

\* C11: the list detect_events returns is sorted by timestamp, most recent
\* first: events[i].timestamp >= events[j].timestamp for all i < j.
C11_FeedSortedDescending ==
    Detected =>
        \A i \in 1..Len(events) : \A j \in 1..Len(events) :
            i < j => events[i].timestamp >= events[j].timestamp

\* a feed of at least three events with distinct timestamps that were not
\* generated in descending order of timestamp
C11_Witness ==
    /\ Detected
    /\ Len(events) >= 3
    /\ \E i \in 1..Len(events) : events[i].timestamp # events[1].timestamp
    /\ \E seed \in Seeds :
          /\ events = detect_events(grievances_filtered, energy_filtered,
                                    traffic_filtered, waste_filtered, seed)
          /\ events # GeneratedEvents(grievances_filtered, energy_filtered,
                                      traffic_filtered, waste_filtered, seed)

\* an event without its timestamp
Untimed(e) ==
    [type |-> e.type, domain |-> e.domain, message |-> e.message, action |-> e.action]

\* two event lists hold the same events with the same multiplicities,
\* timestamps disregarded
SameEvents(a, b) ==
    /\ Len(a) = Len(b)
    /\ \A i \in 1..Len(a) :
          Cardinality({j \in 1..Len(a) : Untimed(a[j]) = Untimed(a[i])})
             = Cardinality({j \in 1..Len(b) : Untimed(b[j]) = Untimed(a[i])})

\* C12: two detect_events passes over identical filtered frames give the
\* same multiset of events, timestamps disregarded, whatever random offsets
\* each pass draws.
C12_SameEventsOnRerun ==
    [][(/\ Detected
        /\ Detected'
        /\ grievances_filtered' = grievances_filtered
        /\ energy_filtered' = energy_filtered
        /\ traffic_filtered' = traffic_filtered
        /\ waste_filtered' = waste_filtered)
       => SameEvents(events, events')]_vars

\* a feed over frames on which another draw of the offsets gives another
\* list, with events of two rules
C12_Witness ==
    /\ Detected
    /\ EventCount("Traffic") >= 2
    /\ EventCount("Citizen Services") >= 1
    /\ \E seed \in Seeds :
          events # detect_events(grievances_filtered, energy_filtered,
                                 traffic_filtered, waste_filtered, seed)

\* the severity, domain and action of each rule, by the text of its message
RuleOf(template) ==
    CASE template = "Severe congestion at {} - Index: {}" ->
            <<"CRITICAL", "Traffic", "Deploy traffic management team">>
      [] template = "Power outage in {} at {}:00" ->
            <<"CRITICAL", "Energy", "Emergency restoration initiated">>
      [] template = "Bins {}% full in {}" ->
            <<"WARNING", "Waste", "Scheduled priority pickup">>
      [] template = "SLA breach: {} - {}" ->
            <<"CRITICAL", "Citizen Services", "Escalated to supervisor">>
      [] OTHER -> <<"none", "none", "none">>

\* C13: every event carries the severity, domain and action of the rule
\* that produced it; no event has another severity or domain, and the only
\* WARNING events are Waste events.
C13_EventFieldsFixedByRule ==
    Detected =>
        \A i \in 1..Len(events) :
            /\ <<events[i].type, events[i].domain, events[i].action>>
                  = RuleOf(events[i].message.template)
            /\ events[i].type \in {"CRITICAL", "WARNING"}
            /\ events[i].domain \in {"Traffic", "Energy", "Waste", "Citizen Services"}
            /\ events[i].type = "WARNING" <=> events[i].domain = "Waste"

\* a feed with events of all four rules
C13_Witness ==
    /\ Detected
    /\ EventCount("Traffic") > 0
    /\ EventCount("Energy") > 0
    /\ EventCount("Waste") > 0
    /\ EventCount("Citizen Services") > 0

\* the filtered Open grievances with zero or negative SLA_Days
Overdue == Matching(grievances_filtered,
                    LAMBDA r : r.Status = "Open" /\ r.SLA_Days <= 0)

\* C14: an Open grievance with negative or zero SLA_Days is counted in
\* critical_issues and gives an SLA event when it is among the first five
\* breaches; calculate_kpis and detect_events do not raise because of it.
C14_OverdueSlaCounted ==
    (HasRun /\ Overdue # {}) =>
        /\ Returned
        /\ pc = "rendered"
        /\ kpis.critical_issues = Cardinality(Breached)
        /\ kpis.critical_issues >= Cardinality(Overdue)
        /\ Detected =>
              \A i \in Overdue \cap FirstOf(Breached, 5) :
                  MessageCount("Citizen Services", SlaText(grievances_filtered[i])) = 1

\* a feed with the SLA event of a grievance with negative SLA_Days
C14_Witness ==
    /\ Detected
    /\ \E i \in Overdue :
          /\ grievances_filtered[i].SLA_Days < 0
          /\ MessageCount("Citizen Services", SlaText(grievances_filtered[i])) = 1

\* C15: for a non-empty filtered traffic frame the flow_efficiency that
\* calculate_kpis returns is 1 - avg_congestion / 100, avg_congestion being
\* the mean Congestion_Index of that frame; it lies in [0,1] when every
\* Congestion_Index lies in [0,100].
C15_FlowEfficiency ==
    (Returned /\ traffic_filtered # <<>>) =>
        LET n    == Len(traffic_filtered)
            s    == SumAt(traffic_filtered, "Congestion_Index", 1..n)
            avg  == kpis.avg_congestion
            flow == kpis.flow_efficiency
        IN  /\ ~avg.nan
            /\ avg.num * n = s * avg.den
            /\ ~flow.nan
            /\ flow.num * 100 * n = (100 * n - s) * flow.den
            /\ (\A i \in 1..n : traffic_filtered[i].Congestion_Index \in 0..100)
                  => (0 <= flow.num /\ flow.num <= flow.den)

\* a snapshot over at least two traffic rows of different Congestion_Index
C15_Witness ==
    /\ Returned
    /\ Len(traffic_filtered) >= 2
    /\ \E i \in 1..Len(traffic_filtered) :
          traffic_filtered[i].Congestion_Index # traffic_filtered[1].Congestion_Index
    /\ kpis.flow_efficiency.num > 0

\* C16: the power_cuts that calculate_kpis returns is the number of filtered
\* energy records with Power_Cut_Flag = 1, and avg_energy is the mean of
\* Energy_Consumption_kWh over all filtered energy records, those with
\* Power_Cut_Flag = 0 included.
C16_PowerCutsAndAvgEnergy ==
    Returned =>
        LET n == Len(energy_filtered)
            s == SumAt(energy_filtered, "Energy_Consumption_kWh", 1..n)
        IN  /\ kpis.power_cuts = Cardinality(PowerCut)
            /\ n > 0 => /\ ~kpis.avg_energy.nan
                        /\ kpis.avg_energy.num * n = s * kpis.avg_energy.den

\* a snapshot over energy rows with and without a power cut
C16_Witness ==
    /\ Returned
    /\ PowerCut # {}
    /\ \E i \in 1..Len(energy_filtered) : energy_filtered[i].Power_Cut_Flag = 0

\* C17: for any filtered grievance frame calculate_kpis returns
\* total_grievances = number of records, open_grievances = number of Open
\* records and critical_issues = number of Open records with SLA_Days <= 1.
C17_GrievanceCounts ==
    HasRun =>
        /\ Returned
        /\ kpis.total_grievances = Len(grievances_filtered)
        /\ kpis.open_grievances
              = Cardinality(Matching(grievances_filtered, LAMBDA r : r.Status = "Open"))
        /\ kpis.critical_issues = Cardinality(Breached)

\* show_advanced_insights has built its table, matrix and findings
Analysed == pc = "rendered" /\ page = "Advanced Insights"

\* the positions of the rows of df recorded for the (Date, Zone_Name) pair k
AtPair(df, k) == {i \in 1..Len(df) : df[i].Date = k[1] /\ df[i].Zone_Name = k[2]}

OpenAtPair(k) ==
    {i \in AtPair(grievances_filtered, k) : grievances_filtered[i].Status = "Open"}

PairsOf(df) == {<<df[i].Date, df[i].Zone_Name>> : i \in 1..Len(df)}

\* the pairs that occur in at least one of the four domains
Pairs ==
    PairsOf(traffic_filtered) \cup PairsOf(energy_filtered) \cup PairsOf(waste_filtered)
    \cup {k \in PairsOf(grievances_filtered) : OpenAtPair(k) # {}}

\* v is the mean of column name over the rows of df at pair k, 0 without rows
CellIsMean(v, df, name, k) ==
    IF AtPair(df, k) = {} THEN v = Zero
    ELSE /\ ~v.nan
         /\ v.num * Cardinality(AtPair(df, k)) = SumAt(df, name, AtPair(df, k)) * v.den

\* C18: the table built in show_advanced_insights has exactly one row for
\* each (Date, Zone_Name) pair occurring in filtered traffic, energy, waste
\* or Open grievances; the row holds the pair's mean Congestion_Index, mean
\* Energy_Consumption_kWh, mean Avg_Bin_Fill_Level_Percent and count of Open
\* grievances, with 0 for a domain that has no record for the pair.
C18_OneRowPerPair ==
    Analysed =>
        /\ Len(merged) = Cardinality(Pairs)
        /\ {<<merged[i].Date, merged[i].Zone_Name>> : i \in 1..Len(merged)} = Pairs
        /\ \A i \in 1..Len(merged) :
              LET k == <<merged[i].Date, merged[i].Zone_Name>>
              IN  /\ CellIsMean(merged[i].Congestion_Index, traffic_filtered,
                                "Congestion_Index", k)
                  /\ CellIsMean(merged[i].Energy_Consumption_kWh, energy_filtered,
                                "Energy_Consumption_kWh", k)
                  /\ CellIsMean(merged[i].Avg_Bin_Fill_Level_Percent, waste_filtered,
                                "Avg_Bin_Fill_Level_Percent", k)
                  /\ merged[i].Open_Count
                        = [nan |-> FALSE, num |-> Cardinality(OpenAtPair(k)), den |-> 1]

\* a table of at least three rows: one pair has several traffic records and
\* an energy record, another has traffic records but no energy record
C18_Witness ==
    /\ Analysed
    /\ Len(merged) >= 3
    /\ \E k \in Pairs : /\ Cardinality(AtPair(traffic_filtered, k)) >= 2
                        /\ AtPair(energy_filtered, k) # {}
    /\ \E k \in Pairs : /\ AtPair(traffic_filtered, k) # {}
                        /\ AtPair(energy_filtered, k) = {}
                        /\ \E i \in 1..Len(merged) :
                              /\ <<merged[i].Date, merged[i].Zone_Name>> = k
                              /\ merged[i].Energy_Consumption_kWh = Zero

\* the square of the coefficient c is at most 1
InUnitRange(c) ==
    c.sign = 0 \/ ~FracLess(c.bxy.den, Abs(c.bxy.num), Abs(c.byx.num), c.byx.den)

\* C19: the 4x4 correlation matrix over the merged table is symmetric, every
\* entry lies in [-1, 1] and every diagonal entry is 1, the entry of a
\* column with zero variance included (defined as 1, not left undefined).
C19_SymmetricBoundedUnitDiagonal ==
    Analysed =>
        \A a \in CorrColumns : \A b \in CorrColumns :
            /\ ~corr_matrix[a][b].nan
            /\ corr_matrix[a][b].sign = corr_matrix[b][a].sign
            /\ corr_matrix[a][b].byx = corr_matrix[b][a].bxy
            /\ corr_matrix[a][b].bxy = corr_matrix[b][a].byx
            /\ InUnitRange(corr_matrix[a][b])
            /\ (a = b) => /\ corr_matrix[a][b].sign = 1
                          /\ corr_matrix[a][b].byx = One
                          /\ corr_matrix[a][b].bxy = One

StrongTrafficEnergy ==
    "Strong positive correlation between traffic congestion and energy consumption"

NeutralTrafficEnergy == "Traffic and energy patterns show moderate correlation"

StrongWasteGrievances == "High bin fill levels correlate with increased grievances"

NeutralWasteGrievances == "Waste management and grievances show independent patterns"

\* C20: each of the two findings is exactly one of its two texts: finding 1
\* is the strong text iff corr(Congestion_Index, Energy_Consumption_kWh) >
\* 0.5, finding 2 is the strong text iff corr(Open_Count,
\* Avg_Bin_Fill_Level_Percent) > 0.4; a correlation equal to the threshold
\* or undefined gives the neutral text.
C20_FindingsByThreshold ==
    Analysed =>
        LET c1 == corr_matrix["Congestion_Index"]["Energy_Consumption_kWh"]
            c2 == corr_matrix["Open_Count"]["Avg_Bin_Fill_Level_Percent"]
            \* r > 1/2  iff  r > 0 and byx * bxy > 1/4
            above1 == /\ ~c1.nan
                      /\ c1.sign = 1
                      /\ FracLess(c1.bxy.den, 4 * c1.bxy.num, c1.byx.num, c1.byx.den)
            \* r > 2/5  iff  r > 0 and byx * bxy > 4/25
            above2 == /\ ~c2.nan
                      /\ c2.sign = 1
                      /\ FracLess(4 * c2.bxy.den, 25 * c2.bxy.num, c2.byx.num, c2.byx.den)
        IN  /\ Len(findings) = 2
            /\ findings[1] = IF above1 THEN StrongTrafficEnergy ELSE NeutralTrafficEnergy
            /\ findings[2] = IF above2 THEN StrongWasteGrievances
                                       ELSE NeutralWasteGrievances

\* finding 1 is the strong text while finding 2 is neutral on a defined,
\* negative correlation
C20_Witness ==
    /\ Analysed
    /\ findings[1] = StrongTrafficEnergy
    /\ findings[2] = NeutralWasteGrievances
    /\ ~corr_matrix["Open_Count"]["Avg_Bin_Fill_Level_Percent"].nan
    /\ corr_matrix["Open_Count"]["Avg_Bin_Fill_Level_Percent"].sign < 0

\* show_ml_analytics has looked for traffic anomalies
Scanned == pc = "rendered" /\ page = "ML Analytics & Predictions"

\* the positions of the filtered traffic records of hour h
AtHour(h) == {i \in 1..Len(traffic_filtered) : traffic_filtered[i].Hour = h}

TrafficHours == {traffic_filtered[i].Hour : i \in 1..Len(traffic_filtered)}

RECURSIVE SumSquaresAt(_, _, _)
\* the sum of the squares of column name of df over the positions in I
SumSquaresAt(df, name, I) ==
    IF I = {} THEN 0
    ELSE LET i == CHOOSE x \in I : TRUE
         IN  df[i][name] * df[i][name] + SumSquaresAt(df, name, I \ {i})

\* row holds mean and (squared) standard deviation of the bucket of its hour
BucketStatistics(row) ==
    LET I == AtHour(row.Hour)
        n == Cardinality(I)
        s == SumAt(traffic_filtered, "Congestion_Index", I)
        q == SumSquaresAt(traffic_filtered, "Congestion_Index", I)
    IN  /\ ~row.mean.nan
        /\ row.mean.num * n = s * row.mean.den
        /\ IF n < 2 THEN row.std.nan
           ELSE /\ ~row.std.nan
                /\ row.std.num * n * (n - 1) = (n * q - s * s) * row.std.den

\* the observed mean of the hour of row lies above mean + 2*std or below
\* mean - 2*std of row: its distance from the mean exceeds 2*std
OutsideBand(row) ==
    LET I   == AtHour(row.Hour)
        obs == [nan |-> FALSE,
                num |-> SumAt(traffic_filtered, "Congestion_Index", I),
                den |-> Cardinality(I)]
        \* obs - mean as numerator over the denominator obs.den * mean.den
        d   == obs.num * row.mean.den - row.mean.num * obs.den
        dd  == obs.den * row.mean.den
    IN  /\ ~row.std.nan
        /\ d * d * row.std.den > 4 * row.std.num * dd * dd

\* C21: for each hour-of-day bucket with traffic records the hour is flagged
\* as an anomaly iff its observed mean Congestion_Index is greater than
\* mean + 2*std or less than mean - 2*std of that same bucket; the reported
\* anomaly count is the number of flagged hours.
C21_FlaggedIffOutsideBand ==
    Scanned =>
        /\ Len(anomaly_data) = Cardinality(TrafficHours)
        /\ {anomaly_data[i].Hour : i \in 1..Len(anomaly_data)} = TrafficHours
        /\ \A i \in 1..Len(anomaly_data) :
              /\ BucketStatistics(anomaly_data[i])
              /\ (\E j \in 1..Len(anomalies) : anomalies[j].Hour = anomaly_data[i].Hour)
                    <=> OutsideBand(anomaly_data[i])
        /\ Len(anomalies)
              = Cardinality({i \in 1..Len(anomaly_data) : OutsideBand(anomaly_data[i])})
        /\ warning = IF Len(anomalies) > 0 THEN <<Len(anomalies)>> ELSE <<>>

\* one bucket has records of different Congestion_Index (std > 0), another
\* has a single record (std undefined)
C21_Witness ==
    /\ Scanned
    /\ \E i \in 1..Len(anomaly_data) :
          /\ ~anomaly_data[i].std.nan
          /\ anomaly_data[i].std.num > 0
    /\ \E i \in 1..Len(anomaly_data) :
          /\ Cardinality(AtHour(anomaly_data[i].Hour)) = 1
          /\ anomaly_data[i].std.nan

\* C28: the set of anomalies computed in show_ml_analytics is empty for
\* every traffic input, and the anomaly warning is never shown: the observed
\* per-hour value is the mean that centres the band, and std >= 0 or
\* undefined.
C28_NoAnomalyEver ==
    Scanned => (anomalies = <<>> /\ warning = <<>>)

\* a scan over four buckets at least, two of them with several records of
\* different Congestion_Index
C28_Witness ==
    /\ Scanned
    /\ Len(anomaly_data) >= 4
    /\ \E i \in 1..Len(anomaly_data) : \E j \in 1..Len(anomaly_data) :
          /\ i # j
          /\ ~anomaly_data[i].std.nan /\ anomaly_data[i].std.num > 0
          /\ ~anomaly_data[j].std.nan /\ anomaly_data[j].std.num > 0

\* main has run at least once, whatever load_data gave
Started == pc # "start"

\* C22: a data source that violates the schema (a required column missing,
\* or a Date that cannot be parsed) gives a failure outcome that differs
\* from the outcome of a file that is not found: the value returned by
\* load_data and the error state reached in main differ between the causes.
C22_SchemaFailureDistinguishable ==
    /\ (Started /\ source.fault = "file_not_found")
          => (loaded = "None" /\ pc = "load_failed")
    /\ (Started /\ source.fault \in {"unparseable_date", "missing_column"})
          => (loaded # "None" /\ pc # "load_failed")

\* C23: a schema error is fatal at the ingestion boundary with no partial
\* result: when a source lacks a required column or fails to load, load_data
\* returns four times None, main stops before filtering, and no KPI
\* snapshot, event list or correlation matrix is computed.
C23_SchemaErrorFatalAtLoad ==
    (Started /\ source.fault # "none") =>
        /\ loaded = "None"
        /\ pc = "load_failed"
        /\ grievances_filtered = <<>>
        /\ kpis = NoKpis
        /\ events = <<>>
        /\ corr_matrix = <<>>

\* the records of a loaded frame that match the current filter
Current(df) ==
    {i \in 1..Len(df) : /\ df[i].Date >= date_range[1]
                        /\ df[i].Date <= date_range[2]
                        /\ df[i].Zone_Name \in zone_filter}

C25_ComponentsIndependent ==
    (HasRun /\ source.fault = "none") =>
        /\ page = "Event Processing & Rules" => event_page.detected
        /\ page = "Advanced Insights" => (pc = "rendered" /\ Len(findings) = 2)
        /\ page = "ML Analytics & Predictions"
              => (pc = "rendered"
                  /\ Len(anomaly_data) = Cardinality(TrafficHours))

\* C26: after any sequence of filter changes the KPI snapshot handed to the
\* pages is the one computed from the records matching the current filter;
\* it never reflects records of a previous filter.
C26_SnapshotOfCurrentFilter ==
    Returned =>
        LET g == Current(grievances)
            e == Current(energy)
            t == Current(traffic)
            w == Current(waste)
        IN  /\ kpis.total_grievances = Cardinality(g)
            /\ kpis.open_grievances
                  = Cardinality({i \in g : grievances[i].Status = "Open"})
            /\ kpis.critical_issues
                  = Cardinality({i \in g : /\ grievances[i].Status = "Open"
                                           /\ grievances[i].SLA_Days <= 1})
            /\ kpis.resolution_rate.num * Cardinality(g)
                  = Cardinality({i \in g : grievances[i].Status = "Resolved"})
                       * kpis.resolution_rate.den
            /\ kpis.power_cuts = SumAt(energy, "Power_Cut_Flag", e)
            /\ kpis.missed_pickups = SumAt(waste, "Missed_Pickups", w)
            /\ IF t = {} THEN kpis.avg_congestion.nan
               ELSE kpis.avg_congestion.num * Cardinality(t)
                       = SumAt(traffic, "Congestion_Index", t)
                            * kpis.avg_congestion.den
            /\ DOMAIN kpis.zone_stress = {traffic[i].Zone_Name : i \in t}

\* a snapshot after both filters were changed, over fewer records than are
\* loaded in each of the grievance, energy and traffic frames
C26_Witness ==
    /\ Returned
    /\ date_range # DateLimits(grievances)
    /\ zone_filter # ZoneOptions(grievances)
    /\ Len(grievances_filtered) < Len(grievances)
    /\ Len(energy_filtered) < Len(energy)
    /\ Len(traffic_filtered) < Len(traffic)
    /\ traffic_filtered # <<>>
    /\ energy_filtered # <<>>

\* C27: when no rule matches any filtered record, event processing degrades
\* to empty/zero values rather than raising: detect_events returns an empty
\* list, and show_event_processing completes its summary (total, critical
\* and warning counts of 0, the two groupings) and shows an empty feed.
C27_NoEventsDegrade ==
    (Detected /\ Congested = {} /\ PowerCut = {} /\ Overflowing = {} /\ Breached = {}) =>
        /\ events = <<>>
        /\ event_page.outcome = "completed"
        /\ event_page.metrics
              = <<[total |-> 0, critical |-> 0, warning |-> 0, actions |-> 0]>>
        /\ Len(event_page.charts) = 1
        /\ event_page.feed = <<>>

\* C29: for the same filtered grievance collection the number of Citizen
\* Services events returned by detect_events equals min(5, critical_issues),
\* critical_issues being the value returned by calculate_kpis; in particular
\* critical_issues = 0 iff the feed holds no Citizen Services event.
C29_SlaEventsMatchCriticalIssues ==
    (Detected /\ Returned) =>
        /\ EventCount("Citizen Services")
              = IF kpis.critical_issues < 5 THEN kpis.critical_issues ELSE 5
        /\ kpis.critical_issues = 0 <=> EventCount("Citizen Services") = 0

\* more critical issues than the cap of five SLA events
C29_Witness ==
    /\ Detected
    /\ Returned
    /\ kpis.critical_issues > 5
    /\ EventCount("Citizen Services") = 5

\* C30: the live feed shows the first 15 entries of the timestamp-descending
\* event list while 'Total Events' and 'Actions Triggered' show the full list
\* length: with all four caps reached (16 events) exactly one event, the one
\* with the oldest timestamp, is counted but not displayed, and with 15 or
\* fewer events every event is displayed.
C30_FeedShowsFirstFifteen ==
    (Detected /\ event_page.outcome = "completed") =>
        LET feed == event_page.feed
            n    == Len(events)
        IN  /\ event_page.metrics[1].total = n
            /\ event_page.metrics[1].actions = n
            /\ \A i \in 1..Len(feed) : feed[i] = events[i]
            /\ n <= 15 => feed = events
            /\ n = 16 => /\ Len(feed) = 15
                         /\ \A i \in 1..15 : events[16].timestamp <= feed[i].timestamp

\* all four caps are reached: 16 events, 15 of them in the feed
C30_Witness ==
    /\ Detected
    /\ event_page.outcome = "completed"
    /\ Len(events) = 16
    /\ Len(event_page.feed) = 15
    /\ event_page.metrics[1].total = 16

====
